---- MODULE Spec2Model ----
(***************************************************************************)
(* A model of AlphaGradient's asset layer:                                 *)
(*   finance/asset.py   - the TYPES registry, Hidden, Asset                *)
(*   data/datatools.py  - AssetData                                        *)
(*                                                                         *)
(* asset.py calls the dataset as AssetData(data, required, optional) and   *)
(* reads AssetData.COLUMNS.CLOSE: that is the enumeration-keyed AssetData  *)
(* of datatools.py lines 285-434.  The part of the model about assets      *)
(* follows that class; the part about dataset construction follows the     *)
(* string-keyed AssetData of datatools.py lines 57-267; the data step of   *)
(* an asset's construction is also taken against that string-keyed class   *)
(* and the get_data beside it, which are the ones datatools.py defines.    *)
(***************************************************************************)
EXTENDS Integers, Sequences, FiniteSets, TLC

VARIABLES
    TYPES,      \* tag name -> Instances: the weak map asset name -> asset
    classes,    \* the declared asset types, in declaration order
    assets,     \* the Asset objects created so far, by identity
    result,     \* what the last operation was given and what it returned or raised
    dataset     \* the last AssetData construction: its arguments and its outcome

vars == <<TYPES, classes, assets, result, dataset>>

(***************************************************************************)
(* Strings the code transforms are sequences of characters.                *)
(***************************************************************************)
LowerCase == <<"a","b","c","d","e","f","g","h","i","j","k","l","m",
               "n","o","p","q","r","s","t","u","v","w","x","y","z">>
UpperCase == <<"A","B","C","D","E","F","G","H","I","J","K","L","M",
               "N","O","P","Q","R","S","T","U","V","W","X","Y","Z">>

\* str.upper() on one character
upper_char(c) ==
    IF \E i \in DOMAIN LowerCase : LowerCase[i] = c
    THEN UpperCase[CHOOSE i \in DOMAIN LowerCase : LowerCase[i] = c]
    ELSE c

\* str.upper()
upper(s) == [i \in DOMAIN s |-> upper_char(s[i])]

\* str.replace(old, new) for single characters
replace(s, old, new) == [i \in DOMAIN s |-> IF s[i] = old THEN new ELSE s[i]]

\* None where a string is expected: no string, since a string's elements are
\* single characters
None == <<"None">>

(***************************************************************************)
(* finance/asset.py: TYPES, Hidden, Asset.__init_subclass__                *)
(***************************************************************************)
UNDEFINED == <<"U","N","D","E","F","I","N","E","D">>

\* _generate_next_value_: a new member's Instances() is an empty weak map
Instances == <<>>

\* the base class Asset as a parent: it has no attribute `type`
Asset == 0

\* the names an asset type is declared with
ClassNames == { <<"S","t","o","c","k">>, <<"S","T","O","C","K">>, <<"B","o","n","d">> }

MaxClasses == 3

\* Hidden (or ABC) is in cls.__bases__: the flags of a class record
\* getattr(cls, 'type', None): the attribute found along the parent chain
inherited_type(cls_list, parent) ==
    IF parent = Asset THEN None ELSE cls_list[parent].type

\* extend_enum(TYPES, TYPE)
extend_enum(types, TYPE) ==
    [t \in DOMAIN types \cup {TYPE} |-> IF t \in DOMAIN types THEN types[t] ELSE Instances]

\* __init_subclass__ with the registration branch dropping the Hidden test
init_subclass_no_hidden(types, cls_list, name, parent, abc, hidden) ==
    LET TYPE == upper(name)
        registers == ~abc
        types1 == IF registers /\ TYPE \notin DOMAIN types
                  THEN extend_enum(types, TYPE) ELSE types
        type1 == IF registers THEN TYPE ELSE inherited_type(cls_list, parent)
        type2 == IF type1 = None THEN UNDEFINED ELSE type1
    IN  [types |-> types1,
         cls |-> [name |-> name, parent |-> parent, abc |-> abc,
                  hidden |-> hidden, type |-> type2]]

\* __init_subclass__ assigning the tag only when it has just been created
init_subclass_new_only(types, cls_list, name, parent, abc, hidden) ==
    LET TYPE == upper(name)
        registers == ~abc /\ ~hidden
        fresh == registers /\ TYPE \notin DOMAIN types
        types1 == IF fresh THEN extend_enum(types, TYPE) ELSE types
        type1 == IF fresh THEN TYPE ELSE inherited_type(cls_list, parent)
        type2 == IF type1 = None THEN UNDEFINED ELSE type1
    IN  [types |-> types1,
         cls |-> [name |-> name, parent |-> parent, abc |-> abc,
                  hidden |-> hidden, type |-> type2]]

\* Asset.__init_subclass__: the registry and the class after the declaration
\*   class <name>(<parent>[, ABC][, Hidden])
init_subclass(types, cls_list, name, parent, abc, hidden) ==
    LET TYPE == upper(name)
        \* all(base not in cls.__bases__ for base in [ABC, Hidden])
        registers == ~abc /\ ~hidden
        types1 == IF registers /\ TYPE \notin DOMAIN types
                  THEN extend_enum(types, TYPE) ELSE types
        type1 == IF registers THEN TYPE ELSE inherited_type(cls_list, parent)
        \* if not getattr(cls, 'type', None): cls.type = TYPES.UNDEFINED
        type2 == IF type1 = None THEN UNDEFINED ELSE type1
    IN  [types |-> types1,
         cls |-> [name |-> name, parent |-> parent, abc |-> abc,
                  hidden |-> hidden, type |-> type2]]

\* a class statement deriving from Asset or from a declared asset type
Declare(name, parent, abc, hidden) ==
    /\ Len(classes) < MaxClasses
    /\ LET r == init_subclass(TYPES, classes, name, parent, abc, hidden)
       IN  /\ TYPES' = r.types
           /\ classes' = Append(classes, r.cls)
           /\ result' = [op |-> "declare", added |-> DOMAIN r.types \ DOMAIN TYPES]
    /\ UNCHANGED <<assets, dataset>>

\* TYPES as the module defines it: UNDEFINED alone
Init_TYPES == [t \in {UNDEFINED} |-> Instances]

\* the module as imported: nothing is declared
Init ==
    /\ TYPES = Init_TYPES
    /\ classes = <<>>
    /\ assets = <<>>
    /\ result = [op |-> "none"]
    /\ dataset = [op |-> "none"]

DeclareNext ==
    \E name \in ClassNames, parent \in {Asset} \cup DOMAIN classes, abc \in BOOLEAN, hidden \in BOOLEAN :
        Declare(name, parent, abc, hidden)

DeclareSpec == Init /\ [][DeclareNext]_vars

(***************************************************************************)
(* Values: datetimes are day numbers, prices are positive integers.        *)
(***************************************************************************)
MaxDate == 3
Dates == 1..MaxDate

\* a float NaN, as DataFrame.asof returns it where no row qualifies
NaN == -1

\* ISO-8601 strings and the datetime each parses to (its position)
IsoDates == <<"2021-01-01", "2021-01-02", "2021-01-03", "2021-01-04", "2021-01-05">>

\* the shapes of a `date` argument
NoDate == [kind |-> "None", dt |-> 0, s |-> ""]
DT(d) == [kind |-> "datetime", dt |-> d, s |-> ""]
STR(str) == [kind |-> "str", dt |-> 0, s |-> str]
INT(n) == [kind |-> "int", dt |-> n, s |-> ""]

\* datetime.fromisoformat on a str
fromisoformat(str) ==
    IF \E i \in DOMAIN IsoDates : IsoDates[i] = str
    THEN [raised |-> "", date |-> CHOOSE i \in DOMAIN IsoDates : IsoDates[i] = str]
    ELSE [raised |-> "ValueError", date |-> 0]

(***************************************************************************)
(* Tables (pandas.DataFrame): column names, row labels, rows of cells.     *)
(***************************************************************************)
DATE == <<"D","A","T","E">>
OPEN == <<"O","P","E","N">>
CLOSE == <<"C","L","O","S","E">>

Range(f) == {f[i] : i \in DOMAIN f}

\* a frame; datetime_index tells a DatetimeIndex from a RangeIndex
DataFrame(columns, index, rows) ==
    [columns |-> columns, index |-> index, rows |-> rows, datetime_index |-> FALSE]

\* the position of a column label
column_loc(columns, label) == CHOOSE i \in DOMAIN columns : columns[i] = label

\* the frame restricted to the columns whose label is in `labels`, in order
select_columns(frame, labels) ==
    LET pos == SelectSeq([i \in DOMAIN frame.columns |-> i],
                         LAMBDA i : frame.columns[i] \in labels)
    IN  DataFrame([k \in DOMAIN pos |-> frame.columns[pos[k]]],
                  frame.index,
                  [r \in DOMAIN frame.rows |-> [k \in DOMAIN pos |-> frame.rows[r][pos[k]]]])

\* data.set_index(pd.DatetimeIndex(data[DATE])) then data.drop(DATE, axis=1)
set_date_index(frame) ==
    LET at == column_loc(frame.columns, DATE)
        rest == select_columns(frame, Range(frame.columns) \ {DATE})
    IN  [DataFrame(rest.columns, [r \in DOMAIN frame.rows |-> frame.rows[r][at]], rest.rows)
            EXCEPT !.datetime_index = TRUE]

\* AssetData.column_format
column_format(column) == upper(replace(column, " ", "_"))

\* Index.is_monotonic_increasing
is_monotonic_increasing(index) ==
    \A i \in DOMAIN index : i + 1 \in DOMAIN index => index[i] <= index[i + 1]

\* DataFrame.asof(where) for a scalar where: the last row labelled at or before
\* where that has no NaN; a row of NaN when there is none; ValueError when the
\* index is not sorted
asof(frame, where) ==
    LET nan_row == [c \in DOMAIN frame.columns |-> NaN]
        good == {r \in DOMAIN frame.rows :
                    /\ frame.index[r] <= where
                    /\ \A c \in DOMAIN frame.rows[r] : frame.rows[r][c] # NaN}
    IN  IF ~is_monotonic_increasing(frame.index)
        THEN [raised |-> "ValueError", row |-> nan_row]
        ELSE IF where < frame.index[1] \/ good = {}
        THEN [raised |-> "", row |-> nan_row]
        ELSE [raised |-> "",
              row |-> frame.rows[CHOOSE r \in good : \A q \in good : q <= r]]

(***************************************************************************)
(* The `data` argument of Asset.__init__                                   *)
(***************************************************************************)
NoFrame == DataFrame(<<>>, <<>>, <<>>)
NoData == [kind |-> "None", v |-> 0, frame |-> NoFrame]
Numeric(v) == [kind |-> "numeric", v |-> v, frame |-> NoFrame]
Table(frame) == [kind |-> "table", v |-> 0, frame |-> frame]

\* constants.is_numeric
is_numeric(data) == data.kind = "numeric"

(***************************************************************************)
(* datatools.py lines 285-434: the AssetData that asset.py constructs as   *)
(* AssetData(data, required, optional), with required and optional left    *)
(* at their default None.                                                  *)
(***************************************************************************)
\* AssetData.COLUMNS: DATE, OPEN, CLOSE
COLUMNS == <<DATE, OPEN, CLOSE>>

\* AssetData.__init__(data): the dataset, or the exception raised
EnumAssetData(data, today) ==
    LET d0 == IF data.kind = "None" THEN Numeric(0) ELSE data
    IN  IF is_numeric(d0)
        THEN [raised |-> "",
              self |-> [static |-> TRUE,
                        frame |-> set_date_index(
                            DataFrame(COLUMNS, <<0>>, << <<today, d0.v, d0.v>> >>))]]
        ELSE LET named == [d0.frame EXCEPT
                              !.columns = [i \in DOMAIN @ |-> column_format(@[i])]]
                 kept == select_columns(named, Range(COLUMNS))
             IN  IF ~ \A i \in DOMAIN COLUMNS : COLUMNS[i] \in Range(kept.columns)
                 THEN [raised |-> "ValueError", self |-> [static |-> FALSE, frame |-> NoFrame]]
                 ELSE [raised |-> "",
                       self |-> [static |-> FALSE,
                                 frame |-> IF kept.rows # <<>>
                                           THEN set_date_index(kept) ELSE kept]]

\* AssetData.__bool__: not (self.empty or self.static)
bool(data) == ~(data.frame.rows = <<>> \/ data.frame.columns = <<>> \/ data.static)

\* what get_data returns: None, or a dataset stored for the asset
NoCache == [found |-> FALSE, self |-> [static |-> FALSE, frame |-> NoFrame]]
Cache(data) == [found |-> TRUE, self |-> data]

(***************************************************************************)
(* finance/asset.py: Asset                                                 *)
(***************************************************************************)
MaxAssets == 2

\* an entry of an instance map: the asset itself, or a list of assets
one(self) == [kind |-> "asset", ids |-> <<self>>]
list(ids) == [kind |-> "list", ids |-> ids]

\* WeakValueDictionary.__setitem__: the value must accept weak references,
\* which an Asset does and a list does not
weak_setitem(instances, key, value) ==
    IF value.kind = "list"
    THEN [raised |-> "TypeError", instances |-> instances]
    ELSE [raised |-> "",
          instances |-> [k \in DOMAIN instances \cup {key} |->
                            IF k = key THEN value ELSE instances[k]]]

\* instances[name] += self: the entry is an Asset, which defines no addition
iadd_entry(instances, name, self) ==
    [raised |-> "TypeError", instances |-> instances]

\* a plain dict in place of the weak one: the entry outlives the asset
weak_remove_strong(instances, self) == instances

\* the weak reference's callback: the entries of a finalized asset disappear
weak_remove(instances, self) ==
    [k \in {n \in DOMAIN instances : self \notin Range(instances[n].ids)} |-> instances[k]]

\* the uniqueness check replacing the entry of a name in use
register_overwrite(instances, name, self, allow_duplicates) ==
    IF allow_duplicates
    THEN IF name \notin DOMAIN instances
         THEN weak_setitem(instances, name, list(<<self>>))
         ELSE iadd_entry(instances, name, self)
    ELSE weak_setitem(instances, name, one(self))

\* Asset.__init__ lines 81-90: the uniqueness check
register(instances, name, self, allow_duplicates) ==
    IF name \notin DOMAIN instances
    THEN IF allow_duplicates
         THEN weak_setitem(instances, name, list(<<self>>))
         ELSE weak_setitem(instances, name, one(self))
    ELSE IF allow_duplicates
    THEN iadd_entry(instances, name, self)
    ELSE [raised |-> "AssetDuplicationError", instances |-> instances]

\* _normalize_date_input taking today's date where none is given
normalize_date_input_first(self, date) ==
    IF date.kind = "None" THEN [raised |-> "", date |-> 1]
    ELSE IF date.kind = "str" THEN fromisoformat(date.s)
    ELSE IF date.kind = "datetime" THEN [raised |-> "", date |-> date.dt]
    ELSE [raised |-> "TypeError", date |-> 0]

\* Asset._normalize_date_input
normalize_date_input(self, date) ==
    IF date.kind = "None" THEN [raised |-> "", date |-> self.date]
    ELSE IF date.kind = "str" THEN fromisoformat(date.s)
    ELSE IF date.kind = "datetime" THEN [raised |-> "", date |-> date.dt]
    ELSE [raised |-> "TypeError", date |-> 0]

\* Asset._valuate: the abstract method's own body
base_valuate(self) == [raised |-> "", ret |-> self.price, self |-> self]

\* Asset._data_valuate reading the first row at or after the date
data_valuate_lookahead(self, date) ==
    LET frame == self.data.frame
        later == {r \in DOMAIN frame.rows : frame.index[r] >= date}
        row == IF later = {} THEN [c \in DOMAIN frame.columns |-> NaN]
               ELSE frame.rows[CHOOSE r \in later : \A q \in later : r <= q]
        price == row[column_loc(frame.columns, self.valuate_on)]
    IN  [raised |-> "", ret |-> price, self |-> [self EXCEPT !.price = price]]

\* Asset._data_valuate, given the datetime valuate normalized
data_valuate(self, date) ==
    LET data == asof(self.data.frame, date)
    IN  IF data.raised # ""
        THEN [raised |-> data.raised, ret |-> 0, self |-> self]
        ELSE IF self.valuate_on \notin Range(self.data.frame.columns)
        THEN [raised |-> "KeyError", ret |-> 0, self |-> self]
        ELSE LET price == data.row[column_loc(self.data.frame.columns, self.valuate_on)]
             IN  [raised |-> "", ret |-> price, self |-> [self EXCEPT !.price = price]]

\* Asset.valuate
valuate(self, date) ==
    LET d == normalize_date_input(self, date)
    IN  IF d.raised # ""
        THEN [raised |-> d.raised, ret |-> 0, self |-> self]
        ELSE IF bool(self.data)
        THEN data_valuate(self, d.date)
        ELSE base_valuate(self)

\* Asset.__init__ for the object `self` of class c: the exception raised and
\* the line group it was raised in, the registry and the object as they are left
Asset_init(types, c, self, name, date, data, cached, today, require_data, allow_duplicates) ==
    LET type == classes[c].type
        self0 == [cls |-> c, type |-> type, name |-> name,
                  price |-> IF is_numeric(data) THEN data.v ELSE 0,
                  valuate_on |-> CLOSE,
                  date |-> 0, data |-> NoCache.self,
                  alive |-> TRUE, held |-> FALSE]
        reg == register(types[type], name, self, allow_duplicates)
        types1 == [types EXCEPT ![type] = reg.instances]
        \* date if isinstance(date, datetime) else datetime.fromisoformat(date)
        d == IF date.kind = "datetime" THEN [raised |-> "", date |-> date.dt]
             ELSE IF date.kind = "str" THEN fromisoformat(date.s)
             ELSE [raised |-> "TypeError", date |-> 0]
        self1 == [self0 EXCEPT !.date = d.date]
        ds == IF data.kind = "None"
              THEN IF cached.found /\ bool(cached.self)
                   THEN [raised |-> "", self |-> cached.self]
                   ELSE EnumAssetData(NoData, today)
              ELSE EnumAssetData(data, today)
        self2 == [self1 EXCEPT !.data = ds.self]
        v == valuate(self2, NoDate)
    IN  IF reg.raised # ""
        THEN [raised |-> reg.raised, at |-> "register", types |-> types, self |-> self0]
        ELSE IF d.raised # ""
        THEN [raised |-> d.raised, at |-> "date", types |-> types1, self |-> self0]
        ELSE IF ds.raised # ""
        THEN [raised |-> ds.raised, at |-> "data", types |-> types1, self |-> self1]
        ELSE IF ~bool(self2.data) /\ require_data
        THEN [raised |-> "ValueError", at |-> "require_data", types |-> types1, self |-> self2]
        ELSE IF v.raised # ""
        THEN [raised |-> v.raised, at |-> "valuate", types |-> types1, self |-> v.self]
        ELSE [raised |-> "", at |-> "", types |-> types1,
              self |-> [v.self EXCEPT !.held = TRUE]]

\* a call of a concrete type's constructor.  An object that fails before it is
\* registered leaves nothing behind; one that fails later stays in the weak
\* map, referenced by nobody, until it is finalized.
Construct(c, name, date, data, cached, today, require_data, allow_duplicates) ==
    /\ Len(assets) < MaxAssets
    /\ LET self == Len(assets) + 1
           r == Asset_init(TYPES, c, self, name, date, data, cached, today,
                           require_data, allow_duplicates)
       IN  /\ TYPES' = r.types
           /\ assets' = IF r.at = "register" THEN assets ELSE Append(assets, r.self)
           /\ result' = [op |-> "construct", cls |-> c, name |-> name,
                         allow_duplicates |-> allow_duplicates,
                         raised |-> r.raised, at |-> r.at,
                         asset |-> IF r.at = "register" THEN 0 ELSE self]
    /\ UNCHANGED <<classes, dataset>>

\* asset.valuate(date) by a holder of the asset
Valuate(a, date) ==
    /\ assets[a].alive /\ assets[a].held
    /\ LET r == valuate(assets[a], date)
       IN  /\ assets' = [assets EXCEPT ![a] = r.self]
           /\ result' = [op |-> "valuate", asset |-> a, date |-> date,
                         raised |-> r.raised, ret |-> r.ret]
    /\ UNCHANGED <<TYPES, classes, dataset>>

\* TYPES.<tag>.instances.<name>: Instances.__getattr__
Lookup(type, name) ==
    /\ result' = [op |-> "lookup", type |-> type, name |-> name,
                  raised |-> IF name \in DOMAIN TYPES[type] THEN "" ELSE "AttributeError",
                  ret |-> IF name \in DOMAIN TYPES[type] THEN TYPES[type][name].ids ELSE <<>>]
    /\ UNCHANGED <<TYPES, classes, assets, dataset>>

\* the last strong reference to an asset is dropped
Release(a) ==
    /\ assets[a].alive /\ assets[a].held
    /\ assets' = [assets EXCEPT ![a].held = FALSE]
    /\ result' = [op |-> "release", asset |-> a]
    /\ UNCHANGED <<TYPES, classes, dataset>>

\* an asset nothing references is finalized: only its type and name are kept
\* here, to tell which asset it was
Collect(a) ==
    /\ assets[a].alive /\ ~assets[a].held
    /\ assets' = [assets EXCEPT ![a] =
                     [cls |-> @.cls, type |-> @.type, name |-> @.name, price |-> 0,
                      valuate_on |-> CLOSE, date |-> 0, data |-> NoCache.self,
                      alive |-> FALSE, held |-> FALSE]]
    /\ TYPES' = [t \in DOMAIN TYPES |-> weak_remove(TYPES[t], a)]
    /\ result' = [op |-> "collect", asset |-> a]
    /\ UNCHANGED <<classes, dataset>>

\* the asset types the program declares before it creates assets:
\*   class Stock(Asset)   and   class Bond(Asset, Hidden)
StockName == <<"S","t","o","c","k">>
BondName == <<"B","o","n","d">>

Declared ==
    LET first == init_subclass(Init_TYPES, <<>>, StockName, Asset, FALSE, FALSE)
        second == init_subclass(first.types, <<first.cls>>, BondName, Asset, FALSE, TRUE)
    IN  [types |-> second.types, classes |-> <<first.cls, second.cls>>]

AssetInit ==
    /\ TYPES = Declared.types
    /\ classes = Declared.classes
    /\ assets = <<>>
    /\ result = [op |-> "none"]
    /\ dataset = [op |-> "none"]

\* asset names
Names == {"A", "B"}

\* the arguments constructors are called with where the registry is studied
RegistryDates == {DT(1), STR("2021-01-01"), NoDate}
RegistryData == {NoData, Numeric(5)}

\* the program creating, looking up and dropping assets named in `names`
RegistryNext(names) ==
    \/ \E c \in DOMAIN classes, name \in names, date \in RegistryDates,
          data \in RegistryData, require_data \in BOOLEAN, allow_duplicates \in BOOLEAN :
            Construct(c, name, date, data, NoCache, MaxDate, require_data, allow_duplicates)
    \/ \E type \in DOMAIN TYPES, name \in names : Lookup(type, name)
    \/ \E a \in DOMAIN assets : Release(a)
    \/ \E a \in DOMAIN assets : Collect(a)

Next == RegistryNext(Names)

Spec == AssetInit /\ [][Next]_vars

\* an unreferenced asset is finalized sooner or later
FairNext == RegistryNext({"A"})

FairSpec ==
    /\ AssetInit
    /\ [][FairNext]_vars
    /\ \A a \in 1..MaxAssets : WF_vars(a \in DOMAIN assets /\ Collect(a))

(***************************************************************************)
(* Valuation: one asset name, datasets of up to MaxRows rows               *)
(***************************************************************************)
MaxRows == 2

\* the dates of data rows: day 1 is earlier than every row
RowDates == 2..MaxDate

\* a raw table with columns date, open, close: the i-th row is dated dates[i]
\* and its prices tell the date and the position apart
raw_table(dates) ==
    DataFrame(<< <<"d","a","t","e">>, <<"o","p","e","n">>, <<"c","l","o","s","e">> >>,
              [i \in DOMAIN dates |-> i - 1],
              [i \in DOMAIN dates |-> <<dates[i], 10 * dates[i] + i, 10 * dates[i] + i>>])

\* a raw table without a close column
no_close_table ==
    DataFrame(<< <<"d","a","t","e">>, <<"o","p","e","n">> >>, <<0>>, << <<2, 21>> >>)

Tables ==
    {raw_table(dates) : dates \in UNION {[1..n -> RowDates] : n \in 0..MaxRows}}
        \cup {no_close_table}

\* a dataset stored for the asset, as get_data returns it
Stored == EnumAssetData(Table(raw_table(<<2, 3>>)), MaxDate).self

ValuateDates ==
    {NoDate, STR("2021-01-02"), STR("yesterday"), INT(2)} \cup {DT(d) : d \in Dates}

ValuateNext ==
    \/ \E date \in ValuateDates,
          data \in {NoData, Numeric(5)} \cup {Table(t) : t \in Tables},
          cached \in {NoCache, Cache(Stored)}, require_data \in BOOLEAN :
            Construct(1, "A", date, data, cached, MaxDate, require_data, FALSE)
    \/ \E a \in DOMAIN assets, date \in ValuateDates : Valuate(a, date)
    \/ \E a \in DOMAIN assets : Release(a)
    \/ \E a \in DOMAIN assets : Collect(a)

ValuateSpec == AssetInit /\ [][ValuateNext]_vars

(***************************************************************************)
(* data/datatools.py lines 57-267: AssetData                               *)
(***************************************************************************)
\* Python truth of an optional string
truthy(str) == str # None /\ str # <<>>

\* how many columns carry a label
label_count(columns, label) == Cardinality({i \in DOMAIN columns : columns[i] = label})

\* what AssetData.__init__ leaves: the exception raised, or the attributes set
\* (none of them when the constructor returned at the null case)
failed(exception, missing) ==
    [raised |-> exception, missing |-> missing, initialized |-> FALSE, data |-> NoFrame,
     open_value |-> None, close_value |-> None, single_valued |-> FALSE]

\* validate_columns naming only one of the unsatisfied columns
validate_columns_first_unsatisfied(data, required, optional) ==
    LET req == {column_format(required[i]) : i \in DOMAIN required}
        opt == {column_format(optional[i]) : i \in DOMAIN optional}
        unsatisfied == {column \in req : column \notin Range(data.columns)}
    IN  IF unsatisfied # {}
        THEN [raised |-> "ValueError", missing |-> {CHOOSE column \in unsatisfied : TRUE},
              data |-> data]
        ELSE [raised |-> "", missing |-> {}, data |-> select_columns(data, req \cup opt)]

\* validate_columns without the loop that drops columns
validate_columns_keep_all(data, required, optional) ==
    LET req == {column_format(required[i]) : i \in DOMAIN required}
        unsatisfied == {column \in req : column \notin Range(data.columns)}
    IN  IF unsatisfied # {}
        THEN [raised |-> "ValueError", missing |-> unsatisfied, data |-> data]
        ELSE [raised |-> "", missing |-> {}, data |-> data]

\* AssetData.validate_columns: the filtered table, or the exception and the
\* required columns its message names
validate_columns(data, required, optional) ==
    LET req == {column_format(required[i]) : i \in DOMAIN required}
        opt == {column_format(optional[i]) : i \in DOMAIN optional}
        unsatisfied == {column \in req : column \notin Range(data.columns)}
        \* the labels data.drop is called with, in the order of data.columns
        dropped == SelectSeq(data.columns, LAMBDA column : column \notin req \cup opt)
    IN  IF unsatisfied # {}
        THEN [raised |-> "ValueError", missing |-> unsatisfied, data |-> data]
        ELSE IF \E i, j \in DOMAIN dropped : i # j /\ dropped[i] = dropped[j]
        \* drop removes every column of the label: the second drop finds none
        THEN [raised |-> "KeyError", missing |-> {}, data |-> data]
        ELSE [raised |-> "", missing |-> {}, data |-> select_columns(data, req \cup opt)]

\* the broadcast of close to open copying the name before it is formatted
resolve_open_close_unformatted(columns, open_setting, close_setting) ==
    LET open_value == IF OPEN \in Range(columns) /\ ~truthy(open_setting)
                      THEN OPEN ELSE open_setting
        close_value == IF CLOSE \in Range(columns) /\ ~truthy(close_setting)
                       THEN CLOSE ELSE close_setting
    IN  IF truthy(close_value) /\ ~truthy(open_value)
        THEN [raised |-> "", open_value |-> close_value,
              close_value |-> column_format(close_value), single_valued |-> TRUE]
        ELSE IF truthy(open_value) /\ ~truthy(close_value)
        THEN [raised |-> "", open_value |-> column_format(open_value),
              close_value |-> open_value, single_valued |-> TRUE]
        ELSE IF ~(truthy(close_value) /\ truthy(open_value))
        THEN [raised |-> "ValueError", open_value |-> None,
              close_value |-> None, single_valued |-> FALSE]
        ELSE [raised |-> "", open_value |-> column_format(open_value),
              close_value |-> column_format(close_value), single_valued |-> FALSE]

\* AssetData.__init__ lines 119-142: the open and close names
resolve_open_close(columns, open_setting, close_setting) ==
    LET open_value == IF OPEN \in Range(columns) /\ ~truthy(open_setting)
                      THEN OPEN ELSE open_setting
        close_value == IF CLOSE \in Range(columns) /\ ~truthy(close_setting)
                       THEN CLOSE ELSE close_setting
    IN  IF truthy(close_value) /\ ~truthy(open_value)
        THEN [raised |-> "", open_value |-> column_format(close_value),
              close_value |-> column_format(close_value), single_valued |-> TRUE]
        ELSE IF truthy(open_value) /\ ~truthy(close_value)
        THEN [raised |-> "", open_value |-> column_format(open_value),
              close_value |-> column_format(open_value), single_valued |-> TRUE]
        ELSE IF ~(truthy(close_value) /\ truthy(open_value))
        THEN [raised |-> "ValueError", open_value |-> None,
              close_value |-> None, single_valued |-> FALSE]
        ELSE [raised |-> "", open_value |-> column_format(open_value),
              close_value |-> column_format(close_value), single_valued |-> FALSE]

\* AssetData.__init__ lines 116-171, on the table the input was turned into
format_table(table, required, optional, open_setting, close_setting) ==
    LET \* data["DATE"] = data.index, for a DatetimeIndex
        dated == IF ~table.datetime_index THEN table
                 ELSE IF DATE \in Range(table.columns)
                 THEN [table EXCEPT !.rows = [r \in DOMAIN @ |->
                          [c \in DOMAIN @[r] |->
                              IF table.columns[c] = DATE THEN table.index[r] ELSE @[r][c]]]]
                 ELSE [table EXCEPT !.columns = Append(@, DATE),
                                    !.rows = [r \in DOMAIN @ |-> Append(@[r], table.index[r])]]
        named == [dated EXCEPT !.columns = [i \in DOMAIN @ |-> column_format(@[i])]]
        names == resolve_open_close(named.columns, open_setting, close_setting)
        \* ["DATE"] + [open_value] + [close_value] + required
        all_required == <<DATE, names.open_value, names.close_value>> \o required
        valid == validate_columns(named, all_required, optional)
    IN  IF names.raised # "" THEN failed(names.raised, {})
        ELSE IF valid.raised # "" THEN failed(valid.raised, valid.missing)
        \* pd.DatetimeIndex(data["DATE"]) needs one DATE column
        ELSE IF label_count(valid.data.columns, DATE) # 1 THEN failed("ValueError", {})
        ELSE [raised |-> "", missing |-> {}, initialized |-> TRUE,
              data |-> set_date_index(valid.data),
              open_value |-> names.open_value, close_value |-> names.close_value,
              single_valued |-> names.single_valued]

\* AssetData.__init__(asset_type, data, columns): required, optional,
\* close_value and open_value are what asset_type.get_settings returns
AssetData_init(required, optional, close_setting, open_setting, data, columns, today) ==
    LET formatted == [i \in DOMAIN required |-> column_format(required[i])]
        close_name == IF truthy(close_setting) THEN close_setting ELSE CLOSE
    IN  IF data.kind = "None"
        THEN [failed("", {}) EXCEPT !.initialized = FALSE]
        ELSE IF is_numeric(data)
        THEN format_table(
                DataFrame(<<DATE, close_name>> \o formatted, <<0>>,
                          << <<today>> \o [i \in 1..(Len(formatted) + 1) |-> data.v] >>),
                <<DATE, close_name>> \o formatted, optional, open_setting, close_name)
        ELSE IF data.kind = "list"
        THEN IF columns = <<>>
             THEN failed("ValueError", {})
             ELSE format_table([data.frame EXCEPT !.columns = columns],
                               formatted, optional, open_setting, close_setting)
        ELSE IF data.kind = "missing file"
        THEN failed("FileNotFoundError", {})
        ELSE IF data.kind \in {"table", "file"}
        THEN format_table(data.frame, formatted, optional, open_setting, close_setting)
        ELSE failed("ValueError", {})

\* AssetData(asset_type, data, columns) at the clock reading `today`, for an
\* asset type whose settings are required, optional, close_value, open_value
NewAssetData(required, optional, close_value, open_value, data, columns, today) ==
    /\ dataset' = [op |-> "AssetData", required |-> required, optional |-> optional,
                   close_value |-> close_value, open_value |-> open_value,
                   data |-> data, columns |-> columns, today |-> today,
                   self |-> AssetData_init(required, optional, close_value, open_value,
                                           data, columns, today)]
    /\ UNCHANGED <<TYPES, classes, assets, result>>

(***************************************************************************)
(* Dataset construction: the inputs                                        *)
(***************************************************************************)
MaxColumns == 3

ColumnLabels ==
    { <<"d","a","t","e">>, <<"o","p","e","n">>, <<"c","l","o","s","e">>,
      <<"a","d","j"," ","c","l","o","s","e">>, <<"v","o","l","u","m","e">> }

\* the column lists of the input tables, repeated labels included
ColumnLists == UNION {[1..n -> ColumnLabels] : n \in 1..MaxColumns}

\* the column lists of the files and of the lists of rows
ColumnPairs == [1..2 -> ColumnLabels]

\* one row under the given columns: a date under date, a price elsewhere
row_table(columns) ==
    DataFrame(columns, <<0>>,
              << [c \in DOMAIN columns |->
                    IF column_format(columns[c]) = DATE THEN 2 ELSE 10 * c] >>)

\* the same row in a table indexed by date
dated_table(columns) ==
    [row_table(columns) EXCEPT !.index = <<MaxDate>>, !.datetime_index = TRUE]

\* a list of rows, which has no column names of its own
List(rows) == [kind |-> "list", v |-> 0, frame |-> DataFrame(<<>>, <<0>>, rows)]
\* a path to a comma-separated file holding the frame
File(frame) == [kind |-> "file", v |-> 0, frame |-> frame]
\* a path to no file
MissingFile == [kind |-> "missing file", v |-> 0, frame |-> NoFrame]
\* an object pd.read_table cannot read
Object == [kind |-> "object", v |-> 0, frame |-> NoFrame]

RequiredSettings == {<<>>, << <<"v","o","l","u","m","e">> >>, << <<"c","l","o","s","e">> >>}
OptionalSettings == {<<>>, << <<"v","o","l","u","m","e">> >>}
CloseSettings == {None, <<"c","l","o","s","e">>, <<"a","d","j"," ","c","l","o","s","e">>}
OpenSettings == {None, <<"o","p","e","n">>}
NumericInputs == {Numeric(0), Numeric(5)}
TableInputs ==
    {Table(row_table(columns)) : columns \in ColumnLists}
        \cup {Table(dated_table(columns)) : columns \in ColumnLists}
        \cup {File(row_table(columns)) : columns \in ColumnPairs}
        \cup {NoData, MissingFile, Object}

\* one construction, from the state the module is imported in
DataNext ==
    \E required \in RequiredSettings, optional \in OptionalSettings,
       close_value \in CloseSettings, open_value \in OpenSettings :
        /\ dataset.op = "none"
        /\ \/ \E data \in NumericInputs, today \in Dates :
                NewAssetData(required, optional, close_value, open_value, data, <<>>, today)
           \/ \E data \in TableInputs :
                NewAssetData(required, optional, close_value, open_value, data, <<>>, MaxDate)
           \/ \E columns \in ColumnPairs \cup {<<>>} :
                NewAssetData(required, optional, close_value, open_value,
                             List(row_table(columns).rows), columns, MaxDate)

DataSpec == Init /\ [][DataNext]_vars

(***************************************************************************)
(* finance/asset.py lines 95-112 against the get_data and the AssetData    *)
(* that datatools.py defines at lines 28-54 and 57-267                     *)
(***************************************************************************)
\* an asset class as AssetData's first argument, with what its get_settings
\* returns
AssetClass(required, optional, close_value, open_value) ==
    [kind |-> "class", required |-> required, optional |-> optional,
     close_value |-> close_value, open_value |-> open_value]

\* a required or optional list where a data argument is expected
as_data(columns) ==
    IF columns = <<>> THEN NoData ELSE List(<<columns>>)

\* AssetData(asset_type, data, columns): asset_type.get_settings exists on
\* asset classes only
AssetData(asset_type, data, columns, today) ==
    IF asset_type.kind # "class"
    THEN failed("AttributeError", {})
    ELSE AssetData_init(asset_type.required, asset_type.optional,
                        asset_type.close_value, asset_type.open_value,
                        data, columns, today)

\* AssetData.__bool__: not self.data.empty.  On a dataset that returned at
\* the null case self.data is unset, and __getattr__ reads self.data again
\* to look it up, without end
AssetData_bool(self) ==
    IF ~self.initialized
    THEN [raised |-> "RecursionError", value |-> FALSE]
    ELSE [raised |-> "", value |-> self.data.rows # <<>> /\ self.data.columns # <<>>]

\* get_data(asset) called with the positional arguments args: the stored
\* dataset of the asset, or None
get_data(args, stored) ==
    IF Len(args) # 1
    THEN [raised |-> "TypeError", found |-> FALSE, self |-> failed("", {})]
    ELSE [raised |-> "", found |-> stored.found, self |-> stored.self]

\* no stored dataset, and one read from the asset's file
NotStored == [found |-> FALSE, self |-> failed("", {})]
StoredData(self) == [found |-> TRUE, self |-> self]

\* Asset.__init__ lines 95-112: the dataset the asset is given, or the
\* exception and the step that raised it
Asset_data(type, name, data, required, optional, require_data, stored, today) ==
    LET got == get_data(<<type, name>>, stored)
        truth == IF got.found THEN AssetData_bool(got.self)
                 ELSE [raised |-> "", value |-> FALSE]
        built == IF data.kind = "None"
                 THEN IF got.raised = "" /\ truth.raised = "" /\ truth.value
                      THEN got.self
                      ELSE AssetData(NoData, as_data(required), optional, today)
                 ELSE AssetData(data, as_data(required), optional, today)
        empty == AssetData_bool(built)
        raise(exception, at) == [raised |-> exception, at |-> at, data |-> failed("", {})]
    IN  IF data.kind = "None" /\ got.raised # "" THEN raise(got.raised, "get_data")
        ELSE IF data.kind = "None" /\ truth.raised # "" THEN raise(truth.raised, "get_data")
        ELSE IF built.raised # "" THEN raise(built.raised, "AssetData")
        ELSE IF empty.raised # "" THEN raise(empty.raised, "require_data")
        ELSE IF ~empty.value /\ require_data THEN raise("ValueError", "require_data")
        ELSE [raised |-> "", at |-> "", data |-> built]

\* the data step of a constructor call
ResolveData(type, name, data, required, optional, require_data, stored, today) ==
    /\ result' = [op |-> "data", type |-> type, name |-> name, data |-> data,
                  required |-> required, optional |-> optional,
                  require_data |-> require_data, stored |-> stored,
                  out |-> Asset_data(type, name, data, required, optional,
                                     require_data, stored, today)]
    /\ UNCHANGED <<TYPES, classes, assets, dataset>>

\* a dataset read from the asset's stored file
StoredClose ==
    AssetData_init(<<>>, <<>>, None, None, File(row_table(<<DATE, CLOSE>>)), <<>>, MaxDate)

\* one constructor call reaching its data step
DataStepNext ==
    \E type \in DOMAIN TYPES, name \in Names,
       data \in {NoData} \cup NumericInputs \cup {Table(t) : t \in Tables},
       required \in RequiredSettings, optional \in OptionalSettings,
       require_data \in BOOLEAN, stored \in {NotStored, StoredData(StoredClose)} :
        /\ result.op = "none"
        /\ ResolveData(type, name, data, required, optional, require_data, stored, MaxDate)

DataStepSpec == AssetInit /\ [][DataStepNext]_vars

(***************************************************************************)
(* Claims about the declaration of asset types                             *)
(***************************************************************************)
\* a type that went through the registration branch of __init_subclass__
Registered(c) == ~c.abc /\ ~c.hidden

RECURSIVE AncestorTag(_, _)
\* the tag of the nearest registered ancestor, UNDEFINED when there is none
AncestorTag(cls_list, parent) ==
    IF parent = Asset THEN UNDEFINED
    ELSE IF Registered(cls_list[parent]) THEN upper(cls_list[parent].name)
    ELSE AncestorTag(cls_list, cls_list[parent].parent)

\* the last step declared a type with Hidden among its immediate parents
HiddenDeclared ==
    /\ result.op = "declare"
    /\ classes # <<>>
    /\ classes[Len(classes)].hidden

\* C3 as stated: a type with Hidden among its immediate parents adds no tag to
\* TYPES, never holds a tag named after itself, and holds the tag of a
\* registered ancestor if it has one and UNDEFINED otherwise.
C3_HiddenAsStated ==
    /\ HiddenDeclared => result.added = {}
    /\ \A i \in DOMAIN classes :
          classes[i].hidden =>
            /\ classes[i].type # upper(classes[i].name)
            /\ classes[i].type = AncestorTag(classes, classes[i].parent)

\* C3 amended: a type with Hidden among its immediate parents adds no tag to
\* TYPES, and its tag is the tag of its nearest registered ancestor if it has
\* one and UNDEFINED otherwise (a tag that carries the hidden type's own
\* uppercased name exactly when that ancestor, or UNDEFINED, already does).
C3_HiddenNoOwnTag ==
    /\ HiddenDeclared => result.added = {}
    /\ \A i \in DOMAIN classes :
          classes[i].hidden =>
            /\ classes[i].type = AncestorTag(classes, classes[i].parent)
            /\ classes[i].type \in DOMAIN TYPES

\* a hidden type was declared below a registered one and holds its tag, and
\* another hidden type, declared below Asset, holds UNDEFINED
C3_Witness ==
    /\ HiddenDeclared
    /\ \E i \in DOMAIN classes :
          /\ classes[i].hidden
          /\ classes[i].parent # Asset
          /\ classes[i].type # UNDEFINED
    /\ \E i \in DOMAIN classes :
          classes[i].hidden /\ classes[i].parent = Asset /\ classes[i].type = UNDEFINED

\* C4 as stated: no two distinct registered asset types are assigned the same
\* tag (and so none share an instance map).
C4_TagsUniqueAsStated ==
    \A i, j \in DOMAIN classes :
        (i # j /\ Registered(classes[i]) /\ Registered(classes[j]))
            => classes[i].type # classes[j].type

\* C4 amended: every registered type's tag is the member of TYPES named by the
\* uppercase form of the type's name, so two distinct registered types are
\* assigned the same tag (and instance map) exactly when their names have the
\* same uppercase form.
C4_TagsUniquePerUpperName ==
    \A i, j \in DOMAIN classes :
        (Registered(classes[i]) /\ Registered(classes[j])) =>
            /\ classes[i].type \in DOMAIN TYPES
            /\ (classes[i].type = classes[j].type)
                   <=> (upper(classes[i].name) = upper(classes[j].name))

\* three registered types, two of them with names of one uppercase form
C4_Witness ==
    \E i, j, k \in DOMAIN classes :
        /\ i # j
        /\ Registered(classes[i]) /\ Registered(classes[j]) /\ Registered(classes[k])
        /\ classes[i].name # classes[j].name
        /\ classes[i].type = classes[j].type
        /\ classes[k].type # classes[i].type

(***************************************************************************)
(* Claims about the registry of instances                                  *)
(***************************************************************************)
\* asset a has an entry in some instance map
InRegistry(a) ==
    \E t \in DOMAIN TYPES : \E n \in DOMAIN TYPES[t] : a \in Range(TYPES[t][n].ids)

C2_DuplicatesAppended ==
    [][ ( result'.op = "construct" /\ result'.allow_duplicates )
        => LET t == classes[result'.cls].type
               n == result'.name
               before == IF n \in DOMAIN TYPES[t] THEN TYPES[t][n].ids ELSE <<>>
           IN  /\ result'.at # "register"
               /\ n \in DOMAIN TYPES'[t]
               /\ TYPES'[t][n].ids = Append(before, result'.asset) ]_vars

Eligible(data, d) == {r \in DOMAIN data.frame.rows : data.frame.index[r] <= d}

\* the close prices of the latest rows dated at or before d
LatestClose(data, d) ==
    {data.frame.rows[r][column_loc(data.frame.columns, CLOSE)] :
        r \in {q \in Eligible(data, d) :
                 \A o \in Eligible(data, d) : data.frame.index[o] <= data.frame.index[q]}}

C6_EarlyDateFails ==
    [][ ( /\ result'.op = "valuate"
          /\ result'.date.kind = "datetime"
          /\ bool(assets[result'.asset].data)
          /\ Eligible(assets[result'.asset].data, result'.date.dt) = {} )
        => ( /\ result'.raised # ""
             /\ assets'[result'.asset].price = assets[result'.asset].price ) ]_vars

\* C7 as stated: on an asset with a non-empty dataset, rows in any order, and
\* a date d that some row is dated at or before, valuate(d) returns the close
\* of the latest row at or before d and stores it as the price; so does the
\* valuation that ends the construction, at the asset's own date.
C7_LatestRowAtOrBefore ==
    /\ ( /\ result.op = "valuate"
         /\ result.date.kind = "datetime"
         /\ bool(assets[result.asset].data)
         /\ Eligible(assets[result.asset].data, result.date.dt) # {} )
       => ( /\ result.raised = ""
            /\ result.ret \in LatestClose(assets[result.asset].data, result.date.dt)
            /\ assets[result.asset].price = result.ret )
    /\ ( /\ result.op = "construct"
         /\ result.at \in {"", "valuate"}
         /\ bool(assets[result.asset].data)
         /\ Eligible(assets[result.asset].data, assets[result.asset].date) # {} )
       => ( /\ result.raised = ""
            /\ assets[result.asset].price
                 \in LatestClose(assets[result.asset].data, assets[result.asset].date) )

(***************************************************************************)
(* Claims about dataset construction                                       *)
(***************************************************************************)
constructed == dataset.op = "AssetData"

\* the formatted column names of the table given to the constructor
input_columns ==
    LET frame == IF dataset.data.kind = "list"
                 THEN [dataset.data.frame EXCEPT !.columns = dataset.columns]
                 ELSE dataset.data.frame
    IN  {column_format(frame.columns[c]) : c \in DOMAIN frame.columns}

\* C9: for any numeric scalar v and any settings of the asset type (required,
\* optional, close name, open name, each possibly unset), the construction
\* succeeds and yields a table of exactly one row, dated at construction
\* time, whose close column holds v
C9_NumericOneRow ==
    (constructed /\ is_numeric(dataset.data)) =>
        LET self == dataset.self
        IN  /\ self.raised = ""
            /\ self.initialized
            /\ Len(self.data.rows) = 1
            /\ self.data.index = <<dataset.today>>
            /\ \E c \in DOMAIN self.data.columns :
                /\ self.data.columns[c] = self.close_value
                /\ self.data.rows[1][c] = dataset.data.v

\* the case C10 is about: a table, a close name supplied and no open name,
\* the named close column in the table, and a construction that succeeded
close_only ==
    /\ constructed
    /\ dataset.data.kind \in {"table", "file", "list"}
    /\ truthy(dataset.close_value)
    /\ ~truthy(dataset.open_value)
    /\ column_format(dataset.close_value) \in input_columns
    /\ dataset.self.raised = ""

single_valued == dataset.self.single_valued /\ dataset.self.open_value = dataset.self.close_value

\* C10 as stated: with a close name supplied and no open name, for any input
\* table holding the named close column, whatever other columns it holds, the
\* dataset is single-valued and its open name equals its close name
C10_CloseOnlyAsStated == close_only => single_valued

\* C10 amended: with a close name supplied and no open name, for any input
\* table that holds the named close column and no column whose formatted name
\* is OPEN, a dataset that is constructed is single-valued and its open name
\* equals its close name
C10_CloseOnlyNoOpenColumn == (close_only /\ OPEN \notin input_columns) => single_valued

\* a table with columns date, adj close, volume, for a type whose close name
\* is "adj close" and whose optional list keeps volume
C10_Witness ==
    /\ close_only
    /\ OPEN \notin input_columns
    /\ dataset.close_value = <<"a","d","j"," ","c","l","o","s","e">>
    /\ dataset.self.close_value = <<"A","D","J","_","C","L","O","S","E">>
    /\ dataset.self.data.columns =
            <<dataset.self.close_value, <<"V","O","L","U","M","E">> >>
    /\ single_valued

\* the construction was given a table: a DataFrame, a file that parses to
\* one, or a list with its column names
table_given ==
    /\ constructed
    /\ dataset.data.kind \in {"table", "file", "list"}
    /\ ~(dataset.data.kind = "list" /\ dataset.columns = <<>>)

\* the column names of the formatted table: the input's formatted names, and
\* DATE when the input is indexed by date
table_column_list ==
    LET columns == IF dataset.data.kind = "list"
                   THEN dataset.columns ELSE dataset.data.frame.columns
        named == [c \in DOMAIN columns |-> column_format(columns[c])]
    IN  IF dataset.data.frame.datetime_index THEN Append(named, DATE) ELSE named

table_columns == Range(table_column_list)

\* the open and close names the construction resolves
resolved == resolve_open_close(table_column_list, dataset.open_value, dataset.close_value)

\* the required columns, formatted: the caller's, the resolved open and close
\* names, and DATE
required_columns ==
    {column_format(dataset.required[i]) : i \in DOMAIN dataset.required}
        \cup {DATE, resolved.open_value, resolved.close_value}

absent_columns == required_columns \ table_columns

caller_columns ==
    {column_format(dataset.required[i]) : i \in DOMAIN dataset.required}
        \cup {column_format(dataset.optional[i]) : i \in DOMAIN dataset.optional}

\* the columns of the dataset's final table
final_columns == Range(dataset.self.data.columns)

\* C12 as stated: in every successfully constructed AssetData, a column of the
\* input table that neither the caller's required list nor the caller's
\* optional list names is not a column of the final table
C12_UnnamedDroppedAsStated ==
    (table_given /\ dataset.self.raised = "") =>
        \A column \in table_columns :
            column \notin caller_columns => column \notin final_columns

\* C12 amended: in every successfully constructed AssetData, a column of the
\* input table that is named by neither the caller's required list, nor the
\* caller's optional list, nor the dataset's open or close name, is not a
\* column of the final table
C12_UnnamedDroppedUnlessOpenClose ==
    (table_given /\ dataset.self.raised = "") =>
        \A column \in table_columns :
            column \notin caller_columns \cup {dataset.self.open_value, dataset.self.close_value}
                => column \notin final_columns

\* a table with a volume column nobody names: it is dropped, the close
\* column stays
C12_Witness ==
    /\ table_given
    /\ dataset.self.raised = ""
    /\ <<"V","O","L","U","M","E">> \in table_columns
    /\ <<"V","O","L","U","M","E">> \notin caller_columns
    /\ <<"V","O","L","U","M","E">> \notin final_columns
    /\ final_columns = {CLOSE}

(***************************************************************************)
(* Claims about the data step of an asset's construction                   *)
(***************************************************************************)
\* C13: a construction with require_data true, no data argument and no
\* stored dataset falls back to an empty dataset built from an absent raw
\* value, which is falsy, and fails with the requires-data error and no other
C13_NoDataFailsMissingData ==
    (/\ result.op = "data"
     /\ result.require_data
     /\ result.data.kind = "None"
     /\ ~result.stored.found)
        => (result.out.raised = "ValueError" /\ result.out.at = "require_data")

====
